---- MODULE Spec2Model ----
(***************************************************************************)
(* Model of the pipeline declaration library: stage descriptors            *)
(* (core/decorators.py, PipelineComponent and its three subclasses), the   *)
(* >> chaining operator, and the orchestrator that validates a chain and   *)
(* flattens it into an execution graph (core/orchestrator.py).             *)
(*                                                                         *)
(* Descriptors are numbered 1..created in order of construction; the       *)
(* Python value None is modelled by 0 for the next/previous references.    *)
(***************************************************************************)
EXTENDS Naturals, Sequences, FiniteSets

\* Bounds of the exploration.
MaxDesc == 3        \* descriptors the caller constructs
MaxLinks == 2       \* >> operations the caller performs
MaxValidate == 2    \* validate_pipeline calls the caller makes

None == 0

\* The caller's decorated functions: func.__name__ and the component type the
\* decorator gives every descriptor the function constructs, with the
\* decorator's source_type or sink_type (<<>> for a transform, which has none).
Decorated == {
    [name |-> "read_from_kafka", component_type |-> "source", subtype |-> <<"kafka">>],
    [name |-> "clean_data", component_type |-> "transform", subtype |-> <<>>],
    [name |-> "write_to_bq", component_type |-> "sink", subtype |-> <<"bigquery">>]}

\* Descriptors are interchangeable until they are linked, and any two can be
\* linked in either direction, so the caller's constructor calls are
\* enumerated in one order only: sources, then transforms, then sinks.
Rank(k) == CASE k = "source" -> 1 [] k = "transform" -> 2 [] k = "sink" -> 3

SourceMsg == "Pipeline must start with a source component"
SinkMsg == "Pipeline must end with a sink component"
SequenceMsg == "Invalid pipeline sequence"

VARIABLES
    name,             \* PipelineComponent.name, per descriptor
    component_type,   \* PipelineComponent.component_type, per descriptor
    subtype,          \* SourceComponent.source_type / SinkComponent.sink_type
    config,           \* PipelineComponent.config, per descriptor
    next,             \* PipelineComponent.next, per descriptor (None = 0)
    previous,         \* PipelineComponent.previous, per descriptor (None = 0)
    components,       \* PipelineOrchestrator.components
    execution_graph,  \* PipelineOrchestrator.execution_graph
    outcome,          \* how the most recent validate_pipeline call ended
    links,            \* >> operations performed so far
    calls,            \* validate_pipeline calls made so far
    pipeline          \* the value of the caller's latest >> expression

vars == <<name, component_type, subtype, config, next, previous,
          components, execution_graph, outcome, links, calls, pipeline>>

created == Len(name)
Desc == 1..created

ComponentTypes == {"source", "transform", "sink"}

\* Fault variant of validate_rules: a sink may be followed by a transform.
validate_rules_sink_open == [k \in {"source", "transform", "sink"} |->
    CASE k = "source" -> {"transform", "sink"}
      [] k = "transform" -> {"transform", "sink"}
      [] k = "sink" -> {"transform"}]

\* Fault variant of validate_rules: a source may follow a source.
validate_rules_source_repeats == [k \in {"source", "transform", "sink"} |->
    CASE k = "source" -> {"source", "transform", "sink"}
      [] k = "transform" -> {"transform", "sink"}
      [] k = "sink" -> {}]

\* PipelineOrchestrator.validate_rules
validate_rules == [k \in ComponentTypes |->
    CASE k = "source" -> {"transform", "sink"}
      [] k = "transform" -> {"transform", "sink"}
      [] k = "sink" -> {}]

Idle == <<"idle">>
Returned == <<"returned">>
Diverged == <<"diverged">>

\* A call that never returns leaves the single-threaded program stuck.
Alive == outcome # Diverged

InConstructionOrder(k) ==
    IF created = 0 THEN TRUE ELSE Rank(component_type[created]) <= Rank(k)

Init ==
    /\ name = <<>>
    /\ component_type = <<>>
    /\ config = <<>>
    /\ next = <<>>
    /\ previous = <<>>
    /\ components = <<>>
    /\ execution_graph = <<>>
    /\ outcome = Idle
    /\ links = 0
    /\ calls = 0
    /\ subtype = <<>>
    /\ pipeline = None

\* PipelineComponent.__init__ reached through SourceComponent,
\* TransformComponent or SinkComponent: a new descriptor, unlinked.
MakeComponent(n, k, t) ==
    /\ Alive
    /\ created < MaxDesc
    /\ name' = Append(name, n)
    /\ component_type' = Append(component_type, k)
    /\ subtype' = Append(subtype, t)
    /\ config' = Append(config, [args |-> created + 1])
    /\ next' = Append(next, None)
    /\ previous' = Append(previous, None)
    /\ UNCHANGED <<components, execution_graph, outcome, links, calls, pipeline>>

\* Fault variant of __rshift__: the left operand is returned.
rshift_returns_self(self, other) ==
    /\ Alive
    /\ links < MaxLinks
    /\ next' = [next EXCEPT ![self] = other]
    /\ previous' = [previous EXCEPT ![other] = self]
    /\ pipeline' = self
    /\ links' = links + 1
    /\ UNCHANGED <<name, component_type, subtype, config, components,
                   execution_graph, outcome, calls>>

\* PipelineComponent.__rshift__: self >> other.
rshift(self, other) ==
    /\ Alive
    /\ links < MaxLinks
    /\ next' = [next EXCEPT ![self] = other]
    /\ previous' = [previous EXCEPT ![other] = self]
    /\ pipeline' = other
    /\ links' = links + 1
    /\ UNCHANGED <<name, component_type, subtype, config, components,
                   execution_graph, outcome, calls>>

\* PipelineComponent.__rrshift__: other >> self, evaluated on the right operand.
rrshift(self, other) ==
    /\ Alive
    /\ links < MaxLinks
    /\ next' = [next EXCEPT ![other] = self]
    /\ previous' = [previous EXCEPT ![self] = other]
    /\ pipeline' = self
    /\ links' = links + 1
    /\ UNCHANGED <<name, component_type, subtype, config, components,
                   execution_graph, outcome, calls>>

\* PipelineComponent.get_first_component: follow previous until it is None.
\* A descriptor has at most `created` distinct predecessors, so a walk that
\* is still going after that many steps is on a cycle and never returns:
\* the result is then None.
RECURSIVE FirstFrom(_, _)
FirstFrom(current, fuel) ==
    IF previous[current] = None THEN current
    ELSE IF fuel = 0 THEN None
    ELSE FirstFrom(previous[current], fuel - 1)

\* Fault variant of get_first_component: the walk back is left out.
get_first_component_no_walk(self) == self

get_first_component(self) == FirstFrom(self, created)

\* Fault variant of _validate_connection: the two components are swapped.
validate_connection_swapped(prev, current) ==
    component_type[prev] \notin validate_rules[component_type[current]]

\* PipelineOrchestrator._validate_connection: TRUE when it raises.
validate_connection(prev, current) ==
    component_type[current] \notin validate_rules[component_type[prev]]

\* The while loop of validate_pipeline, from `current` with the list `acc`.
\* The result is how the loop ends and the list at that point. After
\* `created` appends without reaching None, a descriptor is being visited
\* again and the loop never ends; the list then holds the visits so far.
RECURSIVE WalkFrom(_, _, _)
WalkFrom(current, acc, fuel) ==
    IF current = None THEN [end |-> Returned, list |-> acc]
    ELSE IF previous[current] # None /\ validate_connection(previous[current], current)
    THEN [end |-> <<SequenceMsg, component_type[previous[current]],
                    component_type[current]>>,
          list |-> acc]
    ELSE IF fuel = 0 THEN [end |-> Diverged, list |-> Append(acc, current)]
    ELSE WalkFrom(next[current], Append(acc, current), fuel - 1)

\* Fault variant of validate_pipeline: the first component is checked after
\* the walk.
ValidateResult_walk_first(entry_point, held) ==
    LET first_component == get_first_component(entry_point) IN
    IF first_component = None THEN [end |-> Diverged, list |-> held]
    ELSE LET w == WalkFrom(first_component, held, created) IN
         IF w.end # Returned THEN w
         ELSE IF component_type[first_component] # "source"
         THEN [end |-> <<SourceMsg>>, list |-> w.list]
         ELSE IF component_type[w.list[Len(w.list)]] # "sink"
         THEN [end |-> <<SinkMsg>>, list |-> w.list]
         ELSE w

\* Fault variant of validate_pipeline: the check of the last component is
\* left out.
ValidateResult_no_sink_check(entry_point, held) ==
    LET first_component == get_first_component(entry_point) IN
    IF first_component = None THEN [end |-> Diverged, list |-> held]
    ELSE IF component_type[first_component] # "source"
    THEN [end |-> <<SourceMsg>>, list |-> held]
    ELSE WalkFrom(first_component, held, created)

\* PipelineOrchestrator.validate_pipeline, as a function of the entry point
\* and the list held on entry: how the call ends and the list it leaves.
ValidateResult(entry_point, held) ==
    LET first_component == get_first_component(entry_point) IN
    IF first_component = None THEN [end |-> Diverged, list |-> held]
    ELSE IF component_type[first_component] # "source"
    THEN [end |-> <<SourceMsg>>, list |-> held]
    ELSE LET w == WalkFrom(first_component, held, created) IN
         IF w.end # Returned THEN w
         ELSE IF component_type[w.list[Len(w.list)]] # "sink"
         THEN [end |-> <<SinkMsg>>, list |-> w.list]
         ELSE w

validate_pipeline(entry_point) ==
    /\ Alive
    /\ calls < MaxValidate
    /\ calls' = calls + 1
    /\ LET r == ValidateResult(entry_point, components) IN
        /\ components' = r.list
        /\ outcome' = r.end
    /\ UNCHANGED <<name, component_type, subtype, config, next, previous,
                   execution_graph, links, pipeline>>

\* Fault variant of the graph entry: 'next' names the predecessor.
GraphEntry_previous_name(component) ==
    [type |-> component_type[component],
     next |-> IF previous[component] # None THEN <<name[previous[component]]>> ELSE <<>>,
     config |-> config[component],
     component |-> component]

\* The entry build_execution_graph stores for one component.
GraphEntry(component) ==
    [type |-> component_type[component],
     next |-> IF next[component] # None THEN <<name[next[component]]>> ELSE <<>>,
     config |-> config[component],
     component |-> component]

\* The for loop of build_execution_graph over list[i..], starting from graph g.
\* A graph is a sequence of <<key, entry>> pairs with distinct keys, in
\* insertion order (a Python dict).
SetItem(g, key, entry) ==
    IF \E i \in 1..Len(g) : g[i][1] = key
    THEN [i \in 1..Len(g) |-> IF g[i][1] = key THEN <<key, entry>> ELSE g[i]]
    ELSE Append(g, <<key, entry>>)

RECURSIVE BuildFrom(_, _, _)
BuildFrom(g, list, i) ==
    IF i > Len(list) THEN g
    ELSE BuildFrom(SetItem(g, name[list[i]], GraphEntry(list[i])), list, i + 1)

\* Fault variant of build_execution_graph: the stored components are unlinked.
build_execution_graph_unlinks ==
    /\ Alive
    /\ execution_graph' = BuildFrom(execution_graph, components, 1)
    /\ next' = [d \in Desc |-> IF d \in {components[i] : i \in 1..Len(components)}
                                THEN None ELSE next[d]]
    /\ UNCHANGED <<name, component_type, subtype, config, previous,
                   components, outcome, links, calls, pipeline>>

build_execution_graph ==
    /\ Alive
    /\ execution_graph' = BuildFrom(execution_graph, components, 1)
    /\ UNCHANGED <<name, component_type, subtype, config, next, previous,
                   components, outcome, links, calls, pipeline>>

\* The caller follows the lifecycle of main.py: the descriptors are
\* constructed and linked first, and the pipeline is then handed to the
\* orchestrator, which is called any number of times in any order.
Declaring == calls = 0

Next ==
    \/ \E f \in Decorated :
          /\ Declaring
          /\ InConstructionOrder(f.component_type)
          /\ MakeComponent(f.name, f.component_type, f.subtype)
    \/ \E a \in Desc, b \in Desc : Declaring /\ rshift(a, b)
    \/ \E a \in Desc, b \in Desc : Declaring /\ rrshift(b, a)
    \/ \E e \in Desc : validate_pipeline(e)
    \/ build_execution_graph

Spec == Init /\ [][Next]_vars

\* A caller with two sources and two sinks, every one from a decorated
\* function of its own, that has constructed the four descriptors and goes
\* on to link them and to call the orchestrator.
InitTwoPipelines ==
    /\ name = <<"read_from_kafka", "write_to_bq", "read_from_files", "write_to_files">>
    /\ component_type = <<"source", "sink", "source", "sink">>
    /\ subtype = << <<"kafka">>, <<"bigquery">>, <<"files">>, <<"files">> >>
    /\ config = [d \in 1..4 |-> [args |-> d]]
    /\ next = [d \in 1..4 |-> None]
    /\ previous = [d \in 1..4 |-> None]
    /\ components = <<>>
    /\ execution_graph = <<>>
    /\ outcome = Idle
    /\ links = 0
    /\ calls = 0
    /\ pipeline = None

NextTwoPipelines ==
    \/ \E a \in Desc, b \in Desc : Declaring /\ rshift(a, b)
    \/ \E a \in Desc, b \in Desc : Declaring /\ rrshift(b, a)
    \/ \E e \in Desc : validate_pipeline(e)
    \/ build_execution_graph

SpecTwoPipelines == InitTwoPipelines /\ [][NextTwoPipelines]_vars

(***************************************************************************)
(* Vocabulary of the properties: chains as the specification describes     *)
(* them, stated on the link fields without the orchestrator's operators.   *)
(***************************************************************************)

\* The descriptors met from d along next (d first), at most `fuel` of them.
RECURSIVE Forward(_, _)
Forward(d, fuel) ==
    IF d = None \/ fuel = 0 THEN <<>>
    ELSE <<d>> \o Forward(next[d], fuel - 1)

\* The descriptors met from d along previous (d first), at most `fuel` of them.
RECURSIVE Backward(_, _)
Backward(d, fuel) ==
    IF d = None \/ fuel = 0 THEN <<>>
    ELSE <<d>> \o Backward(previous[d], fuel - 1)

Range(s) == {s[i] : i \in 1..Len(s)}

\* The descriptors without predecessor that d leads back to (none on a cycle).
Heads(d) == {h \in Range(Backward(d, created)) : previous[h] = None}

\* The chain d belongs to, from its head along next.
ChainOf(d) ==
    IF Heads(d) = {} THEN <<>>
    ELSE Forward(CHOOSE h \in Heads(d) : TRUE, created + 1)

\* s is a chain as left-to-right linking of distinct descriptors builds it.
LinkedChain(s) ==
    /\ Len(s) >= 1
    /\ \A i \in 1..Len(s), j \in 1..Len(s) : s[i] = s[j] => i = j
    /\ previous[s[1]] = None
    /\ next[s[Len(s)]] = None
    /\ \A i \in 1..(Len(s) - 1) : next[s[i]] = s[i + 1] /\ previous[s[i + 1]] = s[i]

\* e is one of the descriptors of the linked chain it leads back to.
EntryOfChain(e) == LinkedChain(ChainOf(e)) /\ e \in Range(ChainOf(e))

KindAt(s, i) == component_type[s[i]]

\* Source, T1, ..., Tn, Sink with n >= 0.
ValidKinds(s) ==
    /\ Len(s) >= 2
    /\ KindAt(s, 1) = "source"
    /\ KindAt(s, Len(s)) = "sink"
    /\ \A i \in 2..(Len(s) - 1) : KindAt(s, i) = "transform"

\* The adjacency table of the specification: Source -> {Transform, Sink},
\* Transform -> {Transform, Sink}, Sink -> {}.
IllegalPair(p, c) == p = "sink" \/ c = "source"

IllegalAt(s) == {i \in 1..(Len(s) - 1) : IllegalPair(KindAt(s, i), KindAt(s, i + 1))}

Min(S) == CHOOSE x \in S : \A y \in S : x <= y

Failed(o) == o \notin {Idle, Returned, Diverged}

(***************************************************************************)
(* Properties                                                              *)
(***************************************************************************)

\* C1: on a new orchestrator, validate_pipeline on any descriptor of a linked
\* chain with kinds Source, T1, ..., Tn, Sink returns normally and leaves in
\* components exactly the descriptors of the chain, head to tail.
C1_ValidChainAccepted ==
    [][\A e \in Desc :
        LET c == ChainOf(e) IN
        (calls = 0 /\ validate_pipeline(e) /\ LinkedChain(c) /\ e \in Range(c)
            /\ ValidKinds(c))
        => (outcome' = Returned /\ components' = c)]_vars

C1_Witness ==
    /\ calls = 1
    /\ outcome = Returned
    /\ Len(components) = 3
    /\ LinkedChain(components)
    /\ ValidKinds(components)

\* C2: a second validate_pipeline on the same orchestrator and the same
\* unmodified chain leaves components as the first call left it.
C2_Rerunnable ==
    [][\A e \in Desc :
        (calls = 1 /\ outcome = Returned /\ validate_pipeline(e)
            /\ EntryOfChain(e) /\ components = ChainOf(e))
        => components' = components]_vars

\* C3: next and previous agree: a.next is b exactly when b.previous is a.
C3_LinksConsistent ==
    \A a \in Desc, b \in Desc : (next[a] = b) <=> (previous[b] = a)

\* C4: no descriptor is reachable from itself along next, nor along previous.
C4_Acyclic ==
    \A d \in Desc :
        /\ d \notin Range(Forward(next[d], created))
        /\ d \notin Range(Backward(previous[d], created))

\* C5: get_first_component returns for every descriptor, and what it returns
\* has no previous.
C5_FirstTerminates ==
    \A d \in Desc :
        /\ get_first_component(d) # None
        /\ previous[get_first_component(d)] = None

\* C6: when the head that the entry point leads back to is not a source,
\* validate_pipeline raises the missing-source error, whichever descriptor
\* is the entry point.
C6_MissingSource ==
    [][\A e \in Desc :
        validate_pipeline(e)
        => \A h \in Heads(e) : component_type[h] # "source" => outcome' = <<SourceMsg>>]_vars

C6_Witness ==
    /\ outcome = <<SourceMsg>>
    /\ \E e \in Desc :
        /\ EntryOfChain(e)
        /\ Len(ChainOf(e)) >= 2
        /\ \A i \in 1..Len(ChainOf(e)) : KindAt(ChainOf(e), i) = "transform"

\* C7 as stated: on any linked chain whose last descriptor is a transform,
\* validate_pipeline raises the missing-sink error.
C7_MissingSinkAnyHead ==
    [][\A e \in Desc :
        LET c == ChainOf(e) IN
        (validate_pipeline(e) /\ LinkedChain(c) /\ e \in Range(c)
            /\ KindAt(c, Len(c)) = "transform")
        => outcome' = <<SinkMsg>>]_vars

\* C7 amended: on a linked chain that starts with a source, has no illegal
\* adjacent pair and ends with a transform, validate_pipeline raises the
\* missing-sink error.
C7_MissingSink ==
    [][\A e \in Desc :
        LET c == ChainOf(e) IN
        (validate_pipeline(e) /\ LinkedChain(c) /\ e \in Range(c)
            /\ KindAt(c, 1) = "source" /\ IllegalAt(c) = {}
            /\ KindAt(c, Len(c)) = "transform")
        => outcome' = <<SinkMsg>>]_vars

C7_Witness ==
    /\ outcome = <<SinkMsg>>
    /\ \E e \in Desc :
        /\ EntryOfChain(e)
        /\ Len(ChainOf(e)) = 3
        /\ KindAt(ChainOf(e), 1) = "source"
        /\ KindAt(ChainOf(e), 3) = "transform"
        /\ components = ChainOf(e)

\* The positions of a chain holding a sink that has a successor.
SinkFollowedAt(s) == {i \in 1..(Len(s) - 1) : KindAt(s, i) = "sink"}

\* C8 as stated: on any linked chain in which a sink has a successor,
\* validate_pipeline raises the sequence error, naming two adjacent kinds.
C8_SinkFollowedAnyHead ==
    [][\A e \in Desc :
        LET c == ChainOf(e) IN
        (validate_pipeline(e) /\ LinkedChain(c) /\ e \in Range(c)
            /\ SinkFollowedAt(c) # {})
        => \E i \in 1..(Len(c) - 1) :
            outcome' = <<SequenceMsg, KindAt(c, i), KindAt(c, i + 1)>>]_vars

\* C8 amended: on a linked chain that starts with a source and in which a
\* sink has a successor, validate_pipeline raises the sequence error, naming
\* the kinds of the first illegal adjacent pair from the head.
C8_SinkFollowed ==
    [][\A e \in Desc :
        LET c == ChainOf(e) IN
        (validate_pipeline(e) /\ LinkedChain(c) /\ e \in Range(c)
            /\ KindAt(c, 1) = "source" /\ SinkFollowedAt(c) # {})
        => LET i == Min(IllegalAt(c)) IN
           outcome' = <<SequenceMsg, KindAt(c, i), KindAt(c, i + 1)>>]_vars

C8_Witness ==
    /\ outcome = <<SequenceMsg, "sink", "transform">>
    /\ \E e \in Desc :
        /\ EntryOfChain(e)
        /\ Len(ChainOf(e)) = 3
        /\ KindAt(ChainOf(e), 1) = "source"
        /\ KindAt(ChainOf(e), 2) = "sink"
        /\ KindAt(ChainOf(e), 3) = "transform"

\* C9: a validate_pipeline call that raises leaves components as it was
\* before the call.
C9_NoPartialOnFailure ==
    [][\A e \in Desc :
        (validate_pipeline(e) /\ Failed(outcome')) => components' = components]_vars

\* The keys of a graph, and the entry stored under a key.
Keys(g) == {g[i][1] : i \in 1..Len(g)}
EntryOf(g, key) == CHOOSE i \in 1..Len(g) : g[i][1] = key

\* C10: build_execution_graph after a successful validation of a linked
\* chain with pairwise distinct names returns a graph whose keys are the
\* names of the chain, each entry's next being the successor's name, and
\* none for the last.
C10_GraphOfChain ==
    [][(outcome = Returned /\ build_execution_graph
            /\ LinkedChain(components) /\ ValidKinds(components)
            /\ (\A i \in 1..Len(components), j \in 1..Len(components) :
                    name[components[i]] = name[components[j]] => i = j))
        => /\ Keys(execution_graph') = {name[components[i]] : i \in 1..Len(components)}
           /\ Len(execution_graph') = Len(components)
           /\ \A i \in 1..Len(components) :
                LET entry == execution_graph'[EntryOf(execution_graph', name[components[i]])][2] IN
                entry.next = IF i < Len(components)
                             THEN <<name[components[i + 1]]>> ELSE <<>>]_vars

C10_Witness ==
    /\ outcome = Returned
    /\ Len(components) = 3
    /\ LinkedChain(components)
    /\ Keys(execution_graph) = {"read_from_kafka", "clean_data", "write_to_bq"}
    /\ execution_graph[EntryOf(execution_graph, "read_from_kafka")][2].next = <<"clean_data">>
    /\ execution_graph[EntryOf(execution_graph, "clean_data")][2].next = <<"write_to_bq">>
    /\ execution_graph[EntryOf(execution_graph, "write_to_bq")][2].next = <<>>

NamesOf(s) == {name[s[i]] : i \in 1..Len(s)}

\* s is what the list ends with.
EndsWith(list, s) ==
    /\ Len(s) <= Len(list)
    /\ \A i \in 1..Len(s) : list[Len(list) - Len(s) + i] = s[i]

\* C11: when chain A has been validated and built and a chain B with other
\* names has then been validated on the same orchestrator, the graph that
\* build_execution_graph returns holds the stages of B and no entry of A.
C11_GraphOfLastChain ==
    [][\A a \in Desc, b \in Desc :
        LET A == ChainOf(a)
            B == ChainOf(b) IN
        (calls = 2 /\ outcome = Returned /\ build_execution_graph
            /\ LinkedChain(A) /\ ValidKinds(A) /\ LinkedChain(B) /\ ValidKinds(B)
            /\ NamesOf(A) \cap NamesOf(B) = {}
            /\ Keys(execution_graph) = NamesOf(A)
            /\ EndsWith(components, B))
        => Keys(execution_graph') = NamesOf(B)]_vars

\* LinkedChain, stated of the link fields nx and pv.
LinkedIn(s, nx, pv) ==
    /\ Len(s) >= 1
    /\ \A i \in 1..Len(s), j \in 1..Len(s) : s[i] = s[j] => i = j
    /\ pv[s[1]] = None
    /\ nx[s[Len(s)]] = None
    /\ \A i \in 1..(Len(s) - 1) : nx[s[i]] = s[i + 1] /\ pv[s[i + 1]] = s[i]

Unlinked(d) == next[d] = None /\ previous[d] = None

\* C12: a >> b sets a.next to b and b.previous to a and returns b; applied
\* to the last descriptor of a linked chain and an unlinked descriptor that
\* is not in the chain, it leaves the chain extended by that descriptor, so
\* (a >> b) >> c on three distinct unlinked descriptors is the chain a, b, c
\* and its value is c.
C12_LinkComposes ==
    [][\A a \in Desc, b \in Desc :
        rshift(a, b)
        => /\ next'[a] = b
           /\ previous'[b] = a
           /\ pipeline' = b
           /\ LET c == ChainOf(a) IN
              (LinkedChain(c) /\ c[Len(c)] = a /\ b \notin Range(c) /\ Unlinked(b))
              => LinkedIn(Append(c, b), next', previous')]_vars

C12_Witness ==
    /\ links = 2
    /\ pipeline # None
    /\ LET c == ChainOf(pipeline) IN
        /\ Len(c) = 3
        /\ LinkedChain(c)
        /\ c[3] = pipeline

\* C13: get_first_component returns the head of the chain for every
\* descriptor of a linked chain, and validate_pipeline ends the same way and
\* leaves the same list whichever descriptor of the chain is the entry point.
C13_SameHeadFromAnyEntry ==
    [][\A e \in Desc :
        LET c == ChainOf(e) IN
        (validate_pipeline(e) /\ LinkedChain(c) /\ e \in Range(c))
        => \A d \in Range(c) :
            /\ get_first_component(d) = c[1]
            /\ ValidateResult(d, components) = [end |-> outcome', list |-> components']]_vars

C13_Witness ==
    /\ calls = 1
    /\ outcome = Returned
    /\ pipeline # None
    /\ LET c == ChainOf(pipeline) IN
        /\ Len(c) = 3
        /\ LinkedChain(c)
        /\ c[3] = pipeline
        /\ components = c

\* C14: validate_pipeline and build_execution_graph only read the
\* descriptors: names, kinds, subtypes, configs and both links of every
\* descriptor are the same after the call as before it.
C14_DescriptorsReadOnly ==
    [][((\E e \in Desc : validate_pipeline(e)) \/ build_execution_graph)
        => UNCHANGED <<name, component_type, subtype, config, next, previous>>]_vars

C14_Witness ==
    /\ calls = 2
    /\ links = 2
    /\ Len(execution_graph) = 3
    /\ \E d \in Desc : next[d] # None /\ previous[d] # None

\* C15: every validate_pipeline call returns or raises, on every state the
\* link operations can produce, and appends no more components to the list
\* than there are descriptors.
C15_ValidateTerminates ==
    [][\A e \in Desc :
        validate_pipeline(e)
        => /\ outcome' # Diverged
           /\ Len(components') - Len(components) <= created]_vars

\* The first violation of a chain in walk order: the head that is not a
\* source, else the earliest adjacent pair outside the adjacency table, with
\* its kinds predecessor first, else the tail that is not a sink.
FirstViolation(s) ==
    IF KindAt(s, 1) # "source" THEN <<SourceMsg>>
    ELSE IF IllegalAt(s) # {}
    THEN <<SequenceMsg, KindAt(s, Min(IllegalAt(s))), KindAt(s, Min(IllegalAt(s)) + 1)>>
    ELSE IF KindAt(s, Len(s)) # "sink" THEN <<SinkMsg>>
    ELSE Returned

\* C16: validate_pipeline on a descriptor of a linked chain ends with the
\* first violation in walk order: missing source before anything else, then
\* the earliest illegal adjacent pair named predecessor first, and missing
\* sink only when the head is a source and no adjacent pair is illegal.
C16_FailFastOrder ==
    [][\A e \in Desc :
        LET c == ChainOf(e) IN
        (validate_pipeline(e) /\ LinkedChain(c) /\ e \in Range(c))
        => outcome' = FirstViolation(c)]_vars

C16_Witness ==
    /\ outcome = <<SourceMsg>>
    /\ pipeline # None
    /\ LET c == ChainOf(pipeline) IN
        /\ Len(c) = 3
        /\ LinkedChain(c)
        /\ IllegalAt(c) # {}
        /\ KindAt(c, 3) # "sink"

\* C17: the pair validate_pipeline checks at a visited descriptor is the
\* descriptor visited just before it and the descriptor itself: an adjacency
\* error names the kinds of two consecutively visited descriptors that are
\* outside the table, and the call never returns normally when two
\* consecutively visited descriptors are outside the table, on every state
\* the link operations can produce.
C17_WalkPairChecked ==
    [][\A e \in Desc :
        LET v == ChainOf(e) IN
        validate_pipeline(e)
        => /\ outcome' = Returned => IllegalAt(v) = {}
           /\ Len(outcome') = 3
              => \E i \in IllegalAt(v) :
                    outcome' = <<SequenceMsg, KindAt(v, i), KindAt(v, i + 1)>>]_vars

\* C18: on a new orchestrator and a linked chain of distinct descriptors,
\* validate_pipeline returns normally exactly when the kinds from head to
\* tail are one source, any number of transforms, one sink; on every other
\* sequence of kinds it raises an error.
C18_AcceptsExactlyValidKinds ==
    [][\A e \in Desc :
        LET c == ChainOf(e) IN
        (calls = 0 /\ validate_pipeline(e) /\ LinkedChain(c) /\ e \in Range(c))
        => /\ outcome' = Returned <=> ValidKinds(c)
           /\ ~ValidKinds(c) => Failed(outcome')]_vars

C18_Witness ==
    /\ calls = 1
    /\ outcome = <<SequenceMsg, "source", "source">>
    /\ pipeline # None
    /\ LET c == ChainOf(pipeline) IN
        /\ Len(c) = 2
        /\ LinkedChain(c)
        /\ components = <<c[1]>>
        /\ KindAt(c, 1) = "source"
        /\ KindAt(c, 2) = "source"

\* C19: a >> b changes only a.next and b.previous: a.previous, b.next and
\* both links of every other descriptor are as before, whatever the links
\* were.
C19_LinkFrame ==
    [][\A a \in Desc, b \in Desc :
        rshift(a, b)
        => /\ previous'[a] = previous[a]
           /\ next'[b] = next[b]
           /\ \A d \in Desc \ {a, b} :
                next'[d] = next[d] /\ previous'[d] = previous[d]]_vars

\* C20: build_execution_graph after a successful validation leaves one entry per name of the components
\* list, and the entry of a name carries the kind, the subtype, the config
\* and the reference of the last component of the list with that name.
C20_EntryOfLaterDescriptor ==
    [][(outcome = Returned /\ build_execution_graph)
        => /\ \A i \in 1..Len(execution_graph'), j \in 1..Len(execution_graph') :
                execution_graph'[i][1] = execution_graph'[j][1] => i = j
           /\ \A i \in 1..Len(components) :
                LET d == components[i]
                    entry == execution_graph'[EntryOf(execution_graph', name[d])][2] IN
                (\A j \in (i + 1)..Len(components) : name[components[j]] # name[d])
                => /\ name[d] \in Keys(execution_graph')
                   /\ entry.type = component_type[d]
                   /\ entry.config = config[d]
                   /\ entry.component = d
                   /\ "subtype" \in DOMAIN entry
                   /\ entry.subtype = subtype[d]]_vars

====
